---- MODULE Spec2Model ----
(***************************************************************************)
(* kv-orm: a record layer over Redis (ioredis).  The model covers the      *)
(* store (strings, sets, sorted sets, WATCH / MULTI / EXEC per connection),*)
(* the entity normalizer, the index mutator, the write calls create /      *)
(* createBulk / update / updateOrFail / delete / deleteAll, the query      *)
(* findWhere, rebuildIndexes and the hooks, one action per awaited store   *)
(* round trip.  Spec runs the calls on single records, SpecOps the whole   *)
(* interface, SpecMaint the write calls beside rebuildIndexes,             *)
(* SpecRebuild the queries beside rebuildIndexes.                          *)
(***************************************************************************)
EXTENDS Integers, Sequences, FiniteSets, TLC

\* ---------------------------------------------------------------- bounds
NumIds == 2
NumClients == 2
MaxCalls == 3
MaxTime == 2
MaxOpsCalls == 2
MaxMaintCalls == 3
MaxRebuildCalls == 3

\* ------------------------------------------------------------- JS values
\* A JavaScript value is <<tag, payload>>; the payload is a sequence of
\* naturals: the char codes of a string, <<n>> for a number, <<ms>> for a
\* Date, <<>> for undefined.
Str(s) == <<"s", s>>
Num(n) == <<"n", <<n>>>>
DateV(t) == <<"d", <<t>>>>
Undef == <<"u", <<>>>>

IsStr(v) == v[1] = "s"
IsNum(v) == v[1] = "n"
IsDate(v) == v[1] = "d"

\* the char code of "|", of which the separator "||" is made
ChBar == 124

\* decimal text of a natural (String(n)); 48 is the char code of "0"
RECURSIVE Digits(_)
Digits(n) == IF n < 10 THEN <<48 + n>> ELSE Digits(n \div 10) \o <<48 + (n % 10)>>

\* value of a decimal text
RECURSIVE DigitsVal(_)
DigitsVal(s) ==
  IF Len(s) = 0 THEN 0
  ELSE 10 * DigitsVal(SubSeq(s, 1, Len(s) - 1)) + (s[Len(s)] - 48)

IsDigits(s) == Len(s) > 0 /\ \A i \in 1..Len(s) : s[i] >= 48 /\ s[i] <= 48 + 9

\* Date.prototype.toISOString: the text "T<ms>" (84 is the char code of "T")
\* stands for the ISO-8601 text
toISOString(d) == <<84>> \o Digits(d[2][1])

IsISO(s) == Len(s) > 1 /\ s[1] = 84 /\ IsDigits(Tail(s))

\* ------------------------------------------------------------ identifiers
UuidSeq(i) == <<48 + i>>
IdSeqs == {UuidSeq(i) : i \in 1..NumIds}
Ids == {Str(s) : s \in IdSeqs}

\* z.uuid().safeParse(v).success
IsUuid(v) == IsStr(v) /\ v[2] \in IdSeqs

\* JS truthiness of the values of the model: undefined and "" are falsy
Truthy(v) == v # Undef /\ v # Str(<<>>)

\* ----------------------------------------------------------------- schema
\* The entity type of the examples: email and name are text, age is a number;
\* name and age are optional.
DataFields == <<"email", "name", "age">>
AllFields == {"id", "createdAt", "updatedAt", "email", "name", "age"}

indexedFields == [email |-> "set", name |-> "zset", age |-> "zset"]

\* z.coerce.date(): new Date(v), rejected when the date is invalid
CoerceOk(v) == IsDate(v) \/ IsNum(v) \/ (IsStr(v) /\ IsISO(v[2]))
CoerceDate(v) ==
  IF IsDate(v) THEN v
  ELSE IF IsNum(v) THEN DateV(v[2][1])
  ELSE DateV(DigitsVal(Tail(v[2])))

Get(obj, f) == IF f \in DOMAIN obj THEN obj[f] ELSE Undef

\* entitySchema.parse(obj): <<entity>> when obj is valid, <<>> when it throws.
\* The entity is total over AllFields, with Undef for an absent key.
SchemaValid(obj) ==
  /\ IsUuid(Get(obj, "id"))
  /\ CoerceOk(Get(obj, "createdAt"))
  /\ CoerceOk(Get(obj, "updatedAt"))
  /\ IsStr(Get(obj, "email"))
  /\ (Get(obj, "name") = Undef \/ IsStr(Get(obj, "name")))
  /\ (Get(obj, "age") = Undef \/ IsNum(Get(obj, "age")))

SchemaParse(obj) ==
  IF SchemaValid(obj)
  THEN << [f \in AllFields |->
            IF f \in {"createdAt", "updatedAt"} THEN CoerceDate(obj[f])
            ELSE Get(obj, f)] >>
  ELSE <<>>

\* JSON.stringify(entity): undefined keys are dropped, Dates become ISO text
Stringify(entity) ==
  [f \in {g \in DOMAIN entity : entity[g] # Undef} |->
     IF IsDate(entity[f]) THEN Str(toISOString(entity[f])) ELSE entity[f]]

\* { ...a, ...b }
Spread(a, b) ==
  [f \in DOMAIN a \cup DOMAIN b |-> IF f \in DOMAIN b THEN b[f] ELSE a[f]]

\* ------------------------------------------------------- entity normalizer
\* Mutant of normalizeEntity: updatedAt is kept when the data carries one
\* (updatedAt: data.updatedAt ?? now).
normalizeEntityKeepsUpdatedAt(data, isNew, nowT, fresh) ==
  LET supplied == "id" \in DOMAIN data /\ Truthy(data["id"])
      id == IF supplied THEN data["id"] ELSE fresh
      created == IF isNew THEN DateV(nowT)
                 ELSE IF Get(data, "createdAt") # Undef THEN data["createdAt"]
                 ELSE DateV(nowT)
      updated == IF Get(data, "updatedAt") # Undef THEN data["updatedAt"]
                 ELSE DateV(nowT)
  IN IF supplied /\ ~IsUuid(data["id"]) THEN <<>>
     ELSE SchemaParse(Spread(data,
            [f \in {"id", "createdAt", "updatedAt"} |->
               IF f = "id" THEN id
               ELSE IF f = "createdAt" THEN created
               ELSE updated]))

\* normalizeEntity(data, isNew): <<entity>>, or <<>> when it throws (invalid
\* UUID or schema failure).  nowT is the reading of new Date(), fresh the
\* value randomUUID() returns.
normalizeEntity(data, isNew, nowT, fresh) ==
  LET supplied == "id" \in DOMAIN data /\ Truthy(data["id"])
      id == IF supplied THEN data["id"] ELSE fresh
      created == IF isNew THEN DateV(nowT)
                 ELSE IF Get(data, "createdAt") # Undef THEN data["createdAt"]
                 ELSE DateV(nowT)
  IN IF supplied /\ ~IsUuid(data["id"]) THEN <<>>
     ELSE SchemaParse(Spread(data,
            [f \in {"id", "createdAt", "updatedAt"} |->
               IF f = "id" THEN id
               ELSE IF f = "createdAt" THEN created
               ELSE DateV(nowT)]))

\* ------------------------------------------------------ index key deriver
\* normalizeIndexValue: Date -> ISO text, number -> decimal text, text as is
normalizeIndexValue(v) ==
  IF IsDate(v) THEN toISOString(v)
  ELSE IF IsNum(v) THEN Digits(v[2][1])
  ELSE v[2]

\* keys of the set-typed store entries
allKey == <<"all", <<>>>>
setIndexKey(field, v) == <<field, normalizeIndexValue(v)>>

\* `${value}||${id}`
LexMember(v, id) == v[2] \o <<ChBar, ChBar>> \o id[2]

\* a !== b : Dates are objects, two of them are never identical
StrictNeq(a, b) == IsDate(a) \/ IsDate(b) \/ a # b

\* a < b for two strings: code unit order
RECURSIVE LexLess(_, _)
LexLess(a, b) ==
  IF Len(b) = 0 THEN FALSE
  ELSE IF Len(a) = 0 THEN TRUE
  ELSE IF a[1] # b[1] THEN a[1] < b[1]
  ELSE LexLess(Tail(a), Tail(b))

\* an array operand (the value of "in" and "nin")
Arr(vs) == <<"a", vs>>
IsArr(v) == v[1] = "a"

\* typeof both "string", typeof both "number", or both instanceof Date
Comparable(a, b) ==
  (IsStr(a) /\ IsStr(b)) \/ (IsNum(a) /\ IsNum(b)) \/ (IsDate(a) /\ IsDate(b))

\* a < b for two comparable values
Less(a, b) == IF IsStr(a) THEN LexLess(a[2], b[2]) ELSE a[2][1] < b[2][1]

\* String.prototype.toLowerCase on the letters A-Z (codes 65..90)
ToLower(s) == [i \in 1..Len(s) |-> IF s[i] >= 65 /\ s[i] <= 90 THEN s[i] + 32 ELSE s[i]]

\* s.includes(t)
Includes(s, t) == \E i \in 0..(Len(s) - Len(t)) : SubSeq(s, i + 1, i + Len(t)) = t

\* array.includes(v)
ArrIncludes(arr, v) == \E i \in 1..Len(arr[2]) : ~StrictNeq(arr[2][i], v)

\* the predicate of the in-memory filter of findWhere
Pred(fieldValue, op, value) ==
  CASE op = "eq" -> ~IsArr(value) /\ ~StrictNeq(fieldValue, value)
    [] op = "ne" -> IsArr(value) \/ StrictNeq(fieldValue, value)
    [] op = "lt" -> Comparable(fieldValue, value) /\ Less(fieldValue, value)
    [] op = "lte" -> Comparable(fieldValue, value) /\ ~Less(value, fieldValue)
    [] op = "gt" -> Comparable(fieldValue, value) /\ Less(value, fieldValue)
    [] op = "gte" -> Comparable(fieldValue, value) /\ ~Less(fieldValue, value)
    [] op = "like" -> /\ IsStr(fieldValue) /\ IsStr(value)
                      /\ Includes(ToLower(fieldValue[2]), ToLower(value[2]))
    [] op = "in" -> IsArr(value) /\ ArrIncludes(value, fieldValue)
    [] op = "nin" -> IsArr(value) /\ ~ArrIncludes(value, fieldValue)

\* ---------------------------------------------------------- index mutator
\* Mutant of UpdateFieldOps: the old value's equality set is left alone on
\* update (no srem).
UpdateFieldOpsKeepsOld(field, entity, isUpdate, old) ==
  LET value == entity[field]
      id == entity["id"]
  IN IF indexedFields[field] = "set"
     THEN (IF value # Undef
           THEN << <<"sadd", setIndexKey(field, value), id[2]>> >>
           ELSE <<>>)
     ELSE IF IsStr(value)
          THEN << <<"zadd", field, 0, LexMember(value, id)>> >>
          ELSE IF IsDate(value) \/ IsNum(value)
               THEN << <<"zadd", field, value[2][1], id[2]>> >>
               ELSE <<>>

\* The commands one field contributes to the batch in updateIndexes.
UpdateFieldOps(field, entity, isUpdate, old) ==
  LET value == entity[field]
      oldValue == IF isUpdate /\ Len(old) = 1 THEN old[1][field] ELSE Undef
      id == entity["id"]
  IN IF indexedFields[field] = "set"
     THEN (IF isUpdate /\ StrictNeq(oldValue, value) /\ oldValue # Undef
           THEN << <<"srem", setIndexKey(field, oldValue), id[2]>> >>
           ELSE <<>>)
          \o
          (IF value # Undef
           THEN << <<"sadd", setIndexKey(field, value), id[2]>> >>
           ELSE <<>>)
     ELSE IF IsStr(value)
          THEN << <<"zadd", field, 0, LexMember(value, id)>> >>
          ELSE IF IsDate(value) \/ IsNum(value)
               THEN << <<"zadd", field, value[2][1], id[2]>> >>
               ELSE <<>>

RECURSIVE UpdateOpsFrom(_, _, _, _)
UpdateOpsFrom(i, entity, isUpdate, old) ==
  IF i > Len(DataFields) THEN <<>>
  ELSE UpdateFieldOps(DataFields[i], entity, isUpdate, old)
         \o UpdateOpsFrom(i + 1, entity, isUpdate, old)

\* Mutant of updateIndexes: the index commands are sent on their own, not
\* queued on the multi, so the batch holds the primary write only.
updateIndexesNotQueued(entity, isUpdate, old) == <<>>

\* updateIndexes(multi, entity, isUpdate, oldEntity): the commands queued
updateIndexes(entity, isUpdate, old) ==
  << <<"sadd", allKey, entity["id"][2]>> >> \o UpdateOpsFrom(1, entity, isUpdate, old)

DeleteFieldOps(field, entity) ==
  LET value == entity[field]
      id == entity["id"]
  IN IF indexedFields[field] = "set"
     THEN (IF value # Undef
           THEN << <<"srem", setIndexKey(field, value), id[2]>> >>
           ELSE <<>>)
     ELSE IF IsStr(value)
          THEN << <<"zrem", field, LexMember(value, id)>> >>
          ELSE << <<"zrem", field, id[2]>> >>

RECURSIVE DeleteOpsFrom(_, _)
DeleteOpsFrom(i, entity) ==
  IF i > Len(DataFields) THEN <<>>
  ELSE DeleteFieldOps(DataFields[i], entity) \o DeleteOpsFrom(i + 1, entity)

\* Mutant of deleteIndexes: no index command is queued, the batch holds the
\* removal of the primary record only.
deleteIndexesNone(entity) == <<>>

\* deleteIndexes(multi, entity): the commands queued
deleteIndexes(entity) ==
  << <<"srem", allKey, entity["id"][2]>> >> \o DeleteOpsFrom(1, entity)

\* ------------------------------------------------------------------ store
\* kv    : the string keys, a function from the id text of key(id) to the
\*         stored JSON object
\* sets  : the members of the set keys, pairs <<key, member>>
\* zsets : the members of the sorted sets, <<field, score, member>>
\* A key of any kind is named <<"kv", id text>>, <<"set", set key>> or
\* <<"zset", field>>; DEL of several keys ("delkeys") replies with the number
\* of keys that existed.
ApplyCmd(st, cmd) ==
  CASE cmd[1] = "set" ->
         [st EXCEPT !.kv = [k \in DOMAIN st.kv \cup {cmd[2]} |->
                              IF k = cmd[2] THEN cmd[3] ELSE st.kv[k]],
                    !.touched = @ \cup {cmd[2]}]
    [] cmd[1] = "del" ->
         IF cmd[2] \in DOMAIN st.kv
         THEN [st EXCEPT !.kv = [k \in DOMAIN st.kv \ {cmd[2]} |-> st.kv[k]],
                         !.touched = @ \cup {cmd[2]},
                         !.replies = Append(@, 1)]
         ELSE [st EXCEPT !.replies = Append(@, 0)]
    [] cmd[1] = "delkeys" ->
         LET ids == {k[2] : k \in {x \in cmd[2] : x[1] = "kv"}} \cap DOMAIN st.kv
             sk == {k[2] : k \in {x \in cmd[2] : x[1] = "set"}}
             zk == {k[2] : k \in {x \in cmd[2] : x[1] = "zset"}}
             n == Cardinality(ids)
                    + Cardinality(sk \cap {q[1] : q \in st.sets})
                    + Cardinality(zk \cap {z[1] : z \in st.zsets})
         IN [st EXCEPT !.kv = [k \in DOMAIN st.kv \ ids |-> st.kv[k]],
                       !.sets = {q \in @ : q[1] \notin sk},
                       !.zsets = {z \in @ : z[1] \notin zk},
                       !.touched = @ \cup ids,
                       !.replies = Append(@, n)]
    [] cmd[1] = "sadd" -> [st EXCEPT !.sets = @ \cup {<<cmd[2], cmd[3]>>}]
    [] cmd[1] = "srem" -> [st EXCEPT !.sets = @ \ {<<cmd[2], cmd[3]>>}]
    [] cmd[1] = "zadd" ->
         [st EXCEPT !.zsets = {z \in @ : ~(z[1] = cmd[2] /\ z[3] = cmd[4])}
                                \cup {<<cmd[2], cmd[3], cmd[4]>>}]
    [] cmd[1] = "zrem" ->
         [st EXCEPT !.zsets = {z \in @ : ~(z[1] = cmd[2] /\ z[3] = cmd[3])}]

RECURSIVE ApplyBatch(_, _)
ApplyBatch(st, cmds) ==
  IF Len(cmds) = 0 THEN st ELSE ApplyBatch(ApplyCmd(st, Head(cmds)), Tail(cmds))

\* ------------------------------------------------------------------ state
VARIABLES
  kv,        \* primary records: id text -> stored JSON object
  sets,      \* set keys (membership set and equality indexes)
  zsets,     \* sorted-set keys (ordered indexes)
  watching,  \* per connection: the keys it WATCHes
  dirty,     \* per connection: a watched key was modified (EXEC will abort)
  calls,     \* the calls started so far, each with its position
  now,       \* the reading of new Date(), in ms
  issued,    \* ids already generated by randomUUID or supplied by a caller
  version,   \* history: per primary key, how many batches have modified it
  find,      \* the findWhere call, with its position
  run        \* the workload: how many write calls are issued, and the
             \* inputs create, update and createBulk draw from

vars == <<kv, sets, zsets, watching, dirty, calls, now, issued, version, find, run>>

Clients == 1..NumClients

\* The connections a new call may be issued on.  Connections are
\* interchangeable, so a call uses one already in use or the next unused one.
UsedClients == {calls[i].client : i \in 1..Len(calls)}
CallClients == {c \in Clients : c = 1 \/ (c - 1) \in UsedClients}

\* ----------------------------------------------------------------- inputs
A == Str(<<97>>)
B == Str(<<98>>)
Id1 == Str(UuidSeq(1))
Id2 == Str(UuidSeq(2))

\* a caller-supplied id that is not a UUID (120 is the char code of "x")
BadId == Str(<<120>>)

CreateInputs ==
  { [email |-> A, name |-> A],
    [id |-> Id1, email |-> B, age |-> Num(1)] }

Patches ==
  { [email |-> B, name |-> B, age |-> Num(2)],
    [id |-> Id2],
    [email |-> A, age |-> Undef, createdAt |-> DateV(MaxTime + 1), updatedAt |-> DateV(0)],
    <<>> }

\* inputs that fail in normalizeEntity: a malformed id, a field of the wrong
\* type
InvalidCreateInputs == { [id |-> BadId, email |-> A] }
InvalidPatches == { [email |-> Num(1)] }

\* the lists given to createBulk; one name contains the separator "||"
BulkInputs ==
  { << [email |-> A, name |-> A],
       [email |-> B, name |-> Str(<<ChBar, ChBar>>), age |-> Num(1)] >>,
    << [email |-> A, name |-> A], [email |-> Num(1)] >>,
    << [id |-> Id1, email |-> B, age |-> Num(1)], [id |-> BadId, email |-> A] >>,
    << [id |-> Id1, email |-> B, age |-> Num(1)], [id |-> Id2, email |-> A] >> }

\* the inputs of the runs with rebuildIndexes: a patch that changes nothing,
\* a list that names one id twice
MaintPatches == { <<>> }
MaintBulks == { << [id |-> Id1, email |-> A], [id |-> Id1, email |-> B] >> }

\* the inputs of the runs of rebuildIndexes beside findWhere: records with
\* generated ids
RebuildCreates == { [email |-> A, name |-> A], [email |-> B, age |-> Num(1)] }

\* the queries given to findWhere
QueryFields == {"email", "name", "age", "id"}
QueryOps == {"eq", "ne", "lt", "lte", "gt", "gte", "like", "in", "nin"}
Operands(field) ==
  CASE field = "email" -> <<A, B>>
    [] field = "name" -> <<A, B>>
    [] field = "age" -> <<Num(1), Num(2)>>
    [] field = "id" -> <<Id1, Id2>>

\* the scalar operands and the array sizes of the queries on a field
ScalarOperands(field) == IF field = "email" THEN {1, 2} ELSE {2}
ArrayLens(field) == IF field = "email" THEN {1, 2} ELSE {2}

Queries ==
  { [field |-> q[1], op |-> q[2], value |-> Operands(q[1])[q[3]]] :
      q \in {x \in QueryFields \X (QueryOps \ {"in", "nin"}) \X {1, 2} :
               x[3] \in ScalarOperands(x[1])} }
  \cup
  { [field |-> q[1], op |-> q[2], value |-> Arr(SubSeq(Operands(q[1]), 1, q[3]))] :
      q \in {x \in QueryFields \X {"in", "nin"} \X {1, 2} :
               x[3] \in ArrayLens(x[1])} }

\* -------------------------------------------------------------- read path
\* maybeGet(id): <<entity>> or <<>> (null)
maybeGetOf(store, id) ==
  IF id[2] \in DOMAIN store THEN SchemaParse(store[id[2]]) ELSE <<>>

maybeGet(id) == maybeGetOf(kv, id)

\* ------------------------------------------------- MULTI ... EXEC (Redis)
\* EXEC on connection c: aborted (null reply) when the connection is dirty;
\* in both cases the connection's watches are dropped.  When it runs, every
\* other connection watching a key the batch modified becomes dirty.
Outcome(c, cmds) ==
  IF dirty[c]
  THEN [kv |-> kv, sets |-> sets, zsets |-> zsets, touched |-> {},
        replies |-> <<>>, aborted |-> TRUE]
  ELSE ApplyBatch([kv |-> kv, sets |-> sets, zsets |-> zsets, touched |-> {},
                   replies |-> <<>>, aborted |-> FALSE], cmds)

Exec(c, out) ==
  /\ kv' = out.kv
  /\ sets' = out.sets
  /\ zsets' = out.zsets
  /\ watching' = [watching EXCEPT ![c] = {}]
  /\ dirty' = [d \in Clients |->
                 IF d = c THEN FALSE
                 ELSE dirty[d] \/ (watching[d] \cap out.touched # {})]
  /\ version' = [k \in IdSeqs |-> IF k \in out.touched THEN version[k] + 1 ELSE version[k]]

Result(kind, value) == [kind |-> kind, value |-> value]
Pending == Result("pending", <<>>)

\* runHooks(hooks, phase, input, result): the hooks of the phase run in
\* order; hooks is the history of the phases the call has run
runHooks(call, phase) == [call EXCEPT !.hooks = Append(@, phase)]

\* a call that has run no statement yet
Call(op, c, id, arg, pc, fresh) ==
  [op |-> op, client |-> c, id |-> id, arg |-> arg, pc |-> pc, fresh |-> fresh,
   existing |-> <<>>, result |-> Pending, reads |-> 0, execs |-> 0,
   committed |-> FALSE, verW |-> 0, verR |-> 0, hooks |-> <<>>]

\* every method of methods/ starts with runHooks(hooksToRun, "before", input)
NewCall(op, c, id, arg, pc, fresh) ==
  runHooks(Call(op, c, id, arg, pc, fresh), "before")

Finish(i, res) == [calls EXCEPT ![i].pc = "done", ![i].result = res]

\* ----------------------------------------------------------------- helpers
CallIdx == 1..Len(calls)
IsUpd(i) == calls[i].op \in {"update", "updateOrFail"}
Done(i) == calls[i].pc = "done"
Quiescent == \A i \in CallIdx : Done(i)

\* the entity a call returned
Returned(i) == calls[i].result.value[1]
Ms(d) == d[2][1]

SMembers(key) == {p[2] : p \in {q \in sets : q[1] = key}}
SetKeysOf(field) == {q[1] : q \in {r \in sets : r[1][1] = field}}
ZMembers(field) == {<<z[2], z[3]>> : z \in {y \in zsets : y[1] = field}}

\* index of the first "||" of s at or after i, 0 when there is none
RECURSIVE FirstSep(_, _)
FirstSep(s, i) ==
  IF i + 1 > Len(s) THEN 0
  ELSE IF s[i] = ChBar /\ s[i + 1] = ChBar THEN i
  ELSE FirstSep(s, i + 1)

\* x.split("||")[1]
SplitSecond(s) ==
  LET p == FirstSep(s, 1)
      rest == SubSeq(s, p + 2, Len(s))
      q == FirstSep(rest, 1)
  IN IF q = 0 THEN rest ELSE SubSeq(rest, 1, q - 1)

\* the id a sorted-set member resolves to
MemberId(m) == IF FirstSep(m, 1) = 0 THEN m ELSE SplitSecond(m)

\* the sorted-set entry <<score, member>> that encodes value v of entity id
ZEntries(v, id) ==
  IF IsStr(v) THEN {<<0, LexMember(v, id)>>}
  ELSE IF IsNum(v) \/ IsDate(v) THEN {<<v[2][1], id[2]>>}
  ELSE {}

\* the indexes hold the entries of entity e (the record with id e.id)
SetConsistent(field, e) ==
  \A key \in SetKeysOf(field) :
    e["id"][2] \in SMembers(key) <=> (e[field] # Undef /\ key = setIndexKey(field, e[field]))

SetIndexed(field, e) ==
  e[field] # Undef => e["id"][2] \in SMembers(setIndexKey(field, e[field]))

ZsetConsistent(field, e) ==
  {zm \in ZMembers(field) : MemberId(zm[2]) = e["id"][2]} = ZEntries(e[field], e["id"])

FieldConsistent(field, e) ==
  IF indexedFields[field] = "set"
  THEN SetIndexed(field, e) /\ SetConsistent(field, e)
  ELSE ZsetConsistent(field, e)

DataFieldSet == {DataFields[k] : k \in 1..Len(DataFields)}

\* ------------------------------------------------------------------ create
\* create: normalizeEntity, multi.set + updateIndexes, await multi.exec();
\* the reply of exec is not looked at, the after hooks run next.  The call
\* has a single round trip.
create(c, data, fresh) ==
  LET call == NewCall("create", c, Undef, data, "done", fresh)
      ent == normalizeEntity(data, TRUE, now, fresh)
  IN IF ent = <<>>
     THEN /\ calls' = Append(calls, [call EXCEPT !.result = Result("Error", <<>>)])
          /\ UNCHANGED <<kv, sets, zsets, watching, dirty, version>>
     ELSE LET entity == ent[1]
              out == Outcome(c, << <<"set", entity["id"][2], Stringify(entity)>> >>
                                  \o updateIndexes(entity, FALSE, <<>>))
          IN /\ Exec(c, out)
             /\ calls' = Append(calls,
                  runHooks([call EXCEPT !.result = Result("entity", ent),
                                        !.execs = 1,
                                        !.committed = ~out.aborted,
                                        !.verR = version'[entity["id"][2]]],
                           "after"))

Create ==
  \E c \in CallClients, data \in run.creates :
    /\ Len(calls) < run.calls
    /\ IF "id" \in DOMAIN data
       THEN /\ create(c, data, Undef)
            /\ issued' = issued \cup {data["id"]}
       ELSE \E fresh \in Ids \ issued :
            /\ create(c, data, fresh)
            /\ issued' = issued \cup {fresh}
    /\ UNCHANGED <<now, find, run>>

\* ------------------------------------------------- update / updateOrFail
\* await context.kv.watch(context.key(id))
UpdWatch ==
  \E c \in CallClients, id \in Ids, patch \in run.patches, op \in {"update", "updateOrFail"} :
    /\ Len(calls) < run.calls
    /\ calls' = Append(calls, [NewCall(op, c, id, patch, "read", Undef)
                                 EXCEPT !.verW = version[id[2]]])
    /\ watching' = [watching EXCEPT ![c] = @ \cup {id[2]}]
    /\ issued' = issued \cup {id}
    /\ UNCHANGED <<kv, sets, zsets, dirty, now, version, find, run>>

\* Mutant of NotFound: update reads with get() too, and throws.
NotFoundThrows(call) ==
  [call EXCEPT !.pc = "done", !.result = Result("NotFoundError", <<>>)]

\* no record: update goes on to unwatch and return null, updateOrFail lets
\* the NotFoundError of get() escape
NotFound(call) ==
  IF call.op = "update"
  THEN [call EXCEPT !.pc = "unwatch"]
  ELSE [call EXCEPT !.pc = "done", !.result = Result("NotFoundError", <<>>)]

\* existing = await maybeGet(context, id)   (update)
\* existing = await get(context, id)        (updateOrFail: throws NotFoundError)
UpdRead ==
  \E i \in 1..Len(calls) :
    LET call == calls[i]
        existing == maybeGet(call.id)
    IN /\ call.op \in {"update", "updateOrFail"} /\ call.pc = "read"
       /\ calls' = [calls EXCEPT ![i] =
            [(IF existing # <<>>
              THEN [call EXCEPT !.pc = "exec", !.existing = existing]
              ELSE NotFound(call))
             EXCEPT !.reads = @ + 1, !.verR = version[call.id[2]]]]
       /\ UNCHANGED <<kv, sets, zsets, watching, dirty, now, issued, version, find, run>>

\* if (!existing) { await context.kv.unwatch(); return null; }
UpdUnwatch ==
  \E i \in 1..Len(calls) :
    LET call == calls[i]
    IN /\ call.op = "update" /\ call.pc = "unwatch"
       /\ watching' = [watching EXCEPT ![call.client] = {}]
       /\ dirty' = [dirty EXCEPT ![call.client] = FALSE]
       /\ calls' = Finish(i, Result("null", <<>>))
       /\ UNCHANGED <<kv, sets, zsets, now, issued, version, find, run>>

\* Mutant of Aborted: the call starts its read-modify-write over.
AbortedRetries(call) == [call EXCEPT !.pc = "read"]

\* results === null: update returns null, updateOrFail throws
\* Error("Optimistic locking failed ..."); neither starts over
Aborted(call) ==
  [call EXCEPT !.pc = "done",
               !.result = IF call.op = "update" THEN Result("null", <<>>)
                          ELSE Result("ConflictError", <<>>)]

\* Mutant of UpdExec: the index entries of the record read are removed
\* before the patch is normalized, outside the batch.
UpdExecClearsFirst ==
  \E i \in 1..Len(calls) :
    LET call == calls[i]
        upd == normalizeEntity(Spread(call.existing[1], call.arg), FALSE, now, call.fresh)
        cleared == ApplyBatch([kv |-> kv, sets |-> sets, zsets |-> zsets, touched |-> {},
                               replies |-> <<>>, aborted |-> FALSE],
                              deleteIndexes(call.existing[1]))
    IN /\ call.op \in {"update", "updateOrFail"} /\ call.pc = "exec"
       /\ IF upd = <<>>
          THEN /\ calls' = Finish(i, Result("Error", <<>>))
               /\ sets' = cleared.sets /\ zsets' = cleared.zsets
               /\ UNCHANGED <<kv, watching, dirty, version>>
          ELSE LET updated == upd[1]
                   out == Outcome(call.client,
                            << <<"set", updated["id"][2], Stringify(updated)>> >>
                              \o updateIndexes(updated, TRUE, call.existing))
               IN /\ Exec(call.client, out)
                  /\ calls' = [calls EXCEPT ![i] =
                       [(IF ~out.aborted
                         THEN runHooks([call EXCEPT !.pc = "done",
                                                    !.result = Result("entity", upd)],
                                       "after")
                         ELSE Aborted(call))
                        EXCEPT !.execs = @ + 1, !.committed = ~out.aborted]]
       /\ UNCHANGED <<now, issued, find, run>>

\* normalizeEntity({...existing, ...patch}, false), multi.set +
\* updateIndexes(multi, updated, true, existing), results = await multi.exec();
\* the after hooks run when results is not null
UpdExec ==
  \E i \in 1..Len(calls) :
    LET call == calls[i]
        upd == normalizeEntity(Spread(call.existing[1], call.arg), FALSE, now, call.fresh)
    IN /\ call.op \in {"update", "updateOrFail"} /\ call.pc = "exec"
       /\ IF upd = <<>>
          THEN /\ calls' = Finish(i, Result("Error", <<>>))
               /\ UNCHANGED <<kv, sets, zsets, watching, dirty, version>>
          ELSE LET updated == upd[1]
                   out == Outcome(call.client,
                            << <<"set", updated["id"][2], Stringify(updated)>> >>
                              \o updateIndexes(updated, TRUE, call.existing))
               IN /\ Exec(call.client, out)
                  /\ calls' = [calls EXCEPT ![i] =
                       [(IF ~out.aborted
                         THEN runHooks([call EXCEPT !.pc = "done",
                                                    !.result = Result("entity", upd)],
                                       "after")
                         ELSE Aborted(call))
                        EXCEPT !.execs = @ + 1, !.committed = ~out.aborted]]
       /\ UNCHANGED <<now, issued, find, run>>

\* ------------------------------------------------------------------ delete
\* entity = await maybeGet(context, id); if (!entity) return false.
\* deleteEntity runs the before hooks only.
DelRead ==
  \E c \in CallClients, id \in Ids :
    LET entity == maybeGet(id)
        call == [NewCall("delete", c, id, <<>>, "exec", Undef)
                 EXCEPT !.reads = 1, !.verR = version[id[2]]]
    IN /\ Len(calls) < run.calls
       /\ calls' = Append(calls,
            IF entity # <<>> THEN [call EXCEPT !.existing = entity]
            ELSE [call EXCEPT !.pc = "done", !.result = Result("false", <<>>)])
       /\ issued' = issued \cup {id}
       /\ UNCHANGED <<kv, sets, zsets, watching, dirty, now, version, find, run>>

\* multi.del(key(id)); deleteIndexes(multi, entity); results = await multi.exec()
DelExec ==
  \E i \in 1..Len(calls) :
    LET call == calls[i]
        out == Outcome(call.client,
                 << <<"del", call.id[2]>> >> \o deleteIndexes(call.existing[1]))
    IN /\ call.op = "delete" /\ call.pc = "exec"
       /\ Exec(call.client, out)
       /\ calls' =
            [Finish(i, IF ~out.aborted /\ out.replies[1] = 1
                       THEN Result("true", <<>>) ELSE Result("false", <<>>))
             EXCEPT ![i].execs = @ + 1, ![i].committed = ~out.aborted]
       /\ UNCHANGED <<now, issued, find, run>>

\* -------------------------------------------------------------- createBulk
\* Mutant of BulkCmds: only the first item goes into the batch.
BulkCmdsFirstOnly(entities, i) ==
  IF i > 1 THEN <<>>
  ELSE << <<"set", entities[i]["id"][2], Stringify(entities[i])>> >>
         \o updateIndexes(entities[i], FALSE, <<>>)

\* the commands createBulk queues for the entities from position i on
RECURSIVE BulkCmds(_, _)
BulkCmds(entities, i) ==
  IF i > Len(entities) THEN <<>>
  ELSE << <<"set", entities[i]["id"][2], Stringify(entities[i])>> >>
         \o updateIndexes(entities[i], FALSE, <<>>)
         \o BulkCmds(entities, i + 1)

\* Mutant of createBulk: the items are handled one by one, those before the
\* first invalid item are written before the call fails.
createBulkItemByItem(c, list, fresh) ==
  LET call == NewCall("createBulk", c, Undef, list, "done", Undef)
      ents == [i \in 1..Len(list) |-> normalizeEntity(list[i], TRUE, now, fresh[i])]
      bad == {i \in 1..Len(list) : ents[i] = <<>>}
      n == IF bad = {} THEN Len(list) ELSE (CHOOSE i \in bad : \A j \in bad : i <= j) - 1
      entities == [i \in 1..n |-> ents[i][1]]
      out == Outcome(c, BulkCmds(entities, 1))
  IN /\ Exec(c, out)
     /\ calls' = Append(calls,
          IF bad = {} THEN runHooks([call EXCEPT !.result = Result("entities", entities)],
                                    "after")
          ELSE [call EXCEPT !.result = Result("Error", <<>>)])

\* createBulk: every item is normalized first (a throw ends the call before
\* the multi is built), then one multi holds the commands of all the items;
\* the reply of exec is not looked at, the after hooks run next.  fresh[i]
\* is what randomUUID() returns for item i.
createBulk(c, list, fresh) ==
  LET call == NewCall("createBulk", c, Undef, list, "done", Undef)
      ents == [i \in 1..Len(list) |-> normalizeEntity(list[i], TRUE, now, fresh[i])]
  IN IF \E i \in 1..Len(list) : ents[i] = <<>>
     THEN /\ calls' = Append(calls, [call EXCEPT !.result = Result("Error", <<>>)])
          /\ UNCHANGED <<kv, sets, zsets, watching, dirty, version>>
     ELSE LET entities == [i \in 1..Len(list) |-> ents[i][1]]
              out == Outcome(c, BulkCmds(entities, 1))
          IN /\ Exec(c, out)
             /\ calls' = Append(calls,
                  runHooks([call EXCEPT !.result = Result("entities", entities),
                                        !.execs = 1,
                                        !.committed = ~out.aborted],
                           "after"))

CreateBulk ==
  \E c \in CallClients, list \in run.bulks :
    \E fresh \in [1..Len(list) -> Ids \cup {Undef}] :
      /\ Len(calls) < run.calls
      /\ \A i \in 1..Len(list) :
           IF "id" \in DOMAIN list[i] THEN fresh[i] = Undef
           ELSE /\ fresh[i] \in Ids \ issued
                /\ \A j \in 1..Len(list) : j # i => fresh[j] # fresh[i]
      /\ createBulk(c, list, fresh)
      /\ issued' = issued \cup ({fresh[i] : i \in 1..Len(list)} \ {Undef})
                          \cup {list[i]["id"] : i \in {j \in 1..Len(list) : "id" \in DOMAIN list[j]}}
      /\ UNCHANGED <<now, find, run>>

\* --------------------------------------------------------------- deleteAll
\* scanKeys("*"): SCAN MATCH `${prefix}:*`, which every key of the entity type
\* matches: the primary keys, the membership set and the index keys
scanKeys ==
  {<<"kv", k>> : k \in DOMAIN kv}
    \cup {<<"set", q[1]>> : q \in sets}
    \cup {<<"zset", z[1]>> : z \in zsets}

\* the id texts of the primary keys among keys
PrimaryIds(keys) == {k[2] : k \in {x \in keys : x[1] = "kv"}}

\* Mutant of mget: a null reply fails the whole read, nothing is returned.
mgetAllOrNothing(ids) ==
  IF ids \subseteq DOMAIN kv THEN {SchemaParse(kv[k])[1] : k \in ids} ELSE {}

\* kv.mget(...keys), null replies dropped and the others parsed: a key with no
\* string value (absent, or a set or sorted set) replies null
mget(ids) == {SchemaParse(kv[k])[1] : k \in ids \cap DOMAIN kv}

RECURSIVE SeqOf(_)
SeqOf(S) ==
  IF S = {} THEN <<>>
  ELSE LET x == CHOOSE y \in S : TRUE IN <<x>> \o SeqOf(S \ {x})

RECURSIVE DeleteAllOps(_, _)
DeleteAllOps(entities, i) ==
  IF i > Len(entities) THEN <<>>
  ELSE deleteIndexes(entities[i]) \o DeleteAllOps(entities, i + 1)

\* keys = await scanKeys(pattern); if (!keys.length) return 0
DelAllScan ==
  \E c \in CallClients :
    LET call == NewCall("deleteAll", c, Undef, scanKeys, "read", Undef)
    IN /\ Len(calls) < run.calls
       /\ calls' = Append(calls,
            IF scanKeys # {} THEN call
            ELSE [call EXCEPT !.pc = "done", !.result = Result("count", <<0>>)])
       /\ UNCHANGED <<kv, sets, zsets, watching, dirty, now, issued, version, find, run>>

\* raws = await kv.mget(...keys); entities = raws.filter(Boolean).map(parse)
DelAllRead ==
  \E i \in 1..Len(calls) :
    LET call == calls[i]
    IN /\ call.op = "deleteAll" /\ call.pc = "read"
       /\ calls' = [calls EXCEPT ![i].pc = "exec",
                                 ![i].existing = SeqOf(mget(PrimaryIds(call.arg))),
                                 ![i].reads = @ + 1]
       /\ UNCHANGED <<kv, sets, zsets, watching, dirty, now, issued, version, find, run>>

\* multi.del(...keys); deleteIndexes(multi, entity) for each entity read;
\* results = await multi.exec(); the count returned is the reply of DEL, 0
\* with no after hook when exec replied null
DelAllExec ==
  \E i \in 1..Len(calls) :
    LET call == calls[i]
        out == Outcome(call.client,
                 << <<"delkeys", call.arg>> >> \o DeleteAllOps(call.existing, 1))
    IN /\ call.op = "deleteAll" /\ call.pc = "exec"
       /\ Exec(call.client, out)
       /\ calls' = [calls EXCEPT ![i] =
            [(IF out.aborted
              THEN [call EXCEPT !.pc = "done", !.result = Result("count", <<0>>)]
              ELSE runHooks([call EXCEPT !.pc = "done",
                                         !.result = Result("count", <<out.replies[1]>>)],
                            "after"))
             EXCEPT !.execs = @ + 1, !.committed = ~out.aborted]]
       /\ UNCHANGED <<now, issued, find, run>>

\* ---------------------------------------------------------- rebuildIndexes
\* the loop over indexedFields, from field position k: for a set field the
\* keys found by KEYS are deleted when there are any, for a zset field the
\* sorted set is deleted
RECURSIVE ClearOps(_, _)
ClearOps(keys, k) ==
  IF k > Len(DataFields) THEN <<>>
  ELSE LET f == DataFields[k]
           found == {x \in keys : x[2][1] = f}
       IN (IF indexedFields[f] = "set"
           THEN (IF found # {} THEN << <<"delkeys", found>> >> ELSE <<>>)
           ELSE << <<"delkeys", {<<"zset", f>>}>> >>)
          \o ClearOps(keys, k + 1)

\* updateIndexes(multi, entity, false) for the entities read, from position i
RECURSIVE RebuildOps(_, _)
RebuildOps(entities, i) ==
  IF i > Len(entities) THEN <<>>
  ELSE updateIndexes(entities[i], FALSE, <<>>) \o RebuildOps(entities, i + 1)

\* ids = await this.kv.smembers(this.allKey()); rebuildIndexes runs no hooks.
\* quiet records that no other call was in flight when the call started.
RebStart ==
  \E c \in CallClients :
    /\ Len(calls) < run.calls
    /\ calls' = Append(calls,
         [Call("rebuildIndexes", c, Undef,
               [ids |-> SMembers(allKey), keys |-> {}, quiet |-> Quiescent],
               "keys", Undef)
          EXCEPT !.reads = 1])
    /\ UNCHANGED <<kv, sets, zsets, watching, dirty, now, issued, version, find, run>>

\* Mutant of RebKeys: the index keys are deleted at once, outside the batch.
RebKeysClears ==
  \E i \in 1..Len(calls) :
    LET call == calls[i]
        keys == {<<"set", k>> : k \in UNION {SetKeysOf(f) :
                   f \in {g \in DataFieldSet : indexedFields[g] = "set"}}}
    IN /\ call.op = "rebuildIndexes" /\ call.pc = "keys"
       /\ calls' = [calls EXCEPT ![i].pc = IF call.arg.ids = {} THEN "exec" ELSE "get",
                                 ![i].arg.keys = keys,
                                 ![i].reads = @ + 1]
       /\ sets' = {q \in sets : q[1] = allKey}
       /\ zsets' = {}
       /\ UNCHANGED <<kv, watching, dirty, now, issued, version, find, run>>

\* keys = await this.kv.keys(`${prefix}:idx:set:${field}:*`), one round trip
\* for the one set field of the schema
RebKeys ==
  \E i \in 1..Len(calls) :
    LET call == calls[i]
        keys == {<<"set", k>> : k \in UNION {SetKeysOf(f) :
                   f \in {g \in DataFieldSet : indexedFields[g] = "set"}}}
    IN /\ call.op = "rebuildIndexes" /\ call.pc = "keys"
       /\ calls' = [calls EXCEPT ![i].pc = IF call.arg.ids = {} THEN "exec" ELSE "get",
                                 ![i].arg.keys = keys,
                                 ![i].reads = @ + 1]
       /\ UNCHANGED <<kv, sets, zsets, watching, dirty, now, issued, version, find, run>>

\* raw = await this.kv.get(this.key(id)); if (!raw) continue; the entity is
\* parsed and its index commands are queued.  SMEMBERS replies in no
\* particular order.
RebGet ==
  \E i \in 1..Len(calls) :
    LET call == calls[i]
    IN /\ call.op = "rebuildIndexes" /\ call.pc = "get"
       /\ \E id \in call.arg.ids :
            calls' = [calls EXCEPT
              ![i].pc = IF call.arg.ids = {id} THEN "exec" ELSE "get",
              ![i].arg.ids = @ \ {id},
              ![i].existing = IF id \in DOMAIN kv
                              THEN Append(@, SchemaParse(kv[id])[1]) ELSE @,
              ![i].reads = @ + 1]
       /\ UNCHANGED <<kv, sets, zsets, watching, dirty, now, issued, version, find, run>>

\* await multi.exec(): the reply is not looked at
RebExec ==
  \E i \in 1..Len(calls) :
    LET call == calls[i]
        out == Outcome(call.client,
                 ClearOps(call.arg.keys, 1) \o RebuildOps(call.existing, 1))
    IN /\ call.op = "rebuildIndexes" /\ call.pc = "exec"
       /\ Exec(call.client, out)
       /\ calls' = [Finish(i, Result("void", <<>>))
                    EXCEPT ![i].execs = @ + 1, ![i].committed = ~out.aborted]
       /\ UNCHANGED <<now, issued, find, run>>

\* --------------------------------------------------------------- findWhere
SetOps == {"eq", "ne", "in", "nin"}
ZsetOps == {"lt", "lte", "gt", "gte"}

\* context.indexedFields[field] is set
Indexed(field) == field \in DOMAIN indexedFields

\* (indexType === "set" && supportedBySet) || (indexType === "zset" && supportedByZset)
UsesIndex(field, op) ==
  /\ Indexed(field)
  /\ \/ indexedFields[field] = "set" /\ op \in SetOps
     \/ indexedFields[field] = "zset" /\ op \in ZsetOps

\* findWhereIndexed(field, operator, value): the ids the index yields
findWhereIndexed(field, op, value) ==
  IF indexedFields[field] = "set"
  THEN CASE op = "eq" -> SMembers(setIndexKey(field, value))
         [] op = "in" ->
              IF IsArr(value)
              THEN UNION {SMembers(setIndexKey(field, value[2][i])) : i \in 1..Len(value[2])}
              ELSE {}
         [] op = "ne" -> SMembers(allKey) \ SMembers(setIndexKey(field, value))
         [] op = "nin" ->
              IF IsArr(value) /\ Len(value[2]) > 0
              THEN SMembers(allKey)
                     \ UNION {SMembers(setIndexKey(field, value[2][i])) : i \in 1..Len(value[2])}
              ELSE SMembers(allKey)
         [] OTHER -> {}
  ELSE IF IsStr(value)
       THEN \* zrangebylex over the members, then x.split("||")[1]
            LET ms == {z[3] : z \in {y \in zsets : y[1] = field}}
                hit == CASE op = "lt" -> {m \in ms : LexLess(m, value[2])}
                         [] op = "lte" -> {m \in ms : ~LexLess(value[2], m)}
                         [] op = "gt" -> {m \in ms : LexLess(value[2], m)}
                         [] op = "gte" -> {m \in ms : ~LexLess(m, value[2])}
                         [] OTHER -> {}
            IN {SplitSecond(m) : m \in {h \in hit : FirstSep(h, 1) # 0}}
       ELSE \* zrangebyscore with val = value.getTime() or Number(value)
            LET val == value[2][1]
                zs == {y \in zsets : y[1] = field}
            IN CASE op = "lt" -> {z[3] : z \in {y \in zs : y[2] < val}}
                 [] op = "lte" -> {z[3] : z \in {y \in zs : y[2] <= val}}
                 [] op = "gt" -> {z[3] : z \in {y \in zs : y[2] > val}}
                 [] op = "gte" -> {z[3] : z \in {y \in zs : y[2] >= val}}
                 [] OTHER -> {}

\* allEntities.filter(...) of the fallback
Filtered(entities, field, op, value) ==
  {e \in entities : Pred(e[field], op, value)}

\* the ids findWhere resolves: those of the index when the index serves the
\* operator, none otherwise
LookupIds(field, op, value) ==
  IF UsesIndex(field, op) THEN findWhereIndexed(field, op, value) ELSE {}

\* !ids.length && (!indexType || ["like"].includes(operator))
FallsBack(field, op, ids) == ids = {} /\ (~Indexed(field) \/ op = "like")

\* findWhere(field, operator, value) run with no other call between its round
\* trips: the set of entities returned
findWhere(field, op, value) ==
  LET ids == LookupIds(field, op, value)
  IN IF FallsBack(field, op, ids)
     THEN Filtered(mget(PrimaryIds(scanKeys)), field, op, value)
     ELSE mget(ids)

\* getAll filtered in memory by the predicate
fullScan(field, op, value) == Filtered(mget(DOMAIN kv), field, op, value)

NoFind ==
  [pc |-> "none", field |-> "", op |-> "", value |-> Undef, path |-> "",
   keys |-> {}, result |-> {}, quiet |-> FALSE, hooks |-> <<>>]

\* The first round trip of findWhere: findWhereIndexed when the index serves
\* the operator, scanKeys of getAll when the call falls back.  With no key to
\* read the call returns [] at once.  The query is the last call issued.
FindLookup ==
  \E q \in Queries :
    LET ids == LookupIds(q.field, q.op, q.value)
        scan == FallsBack(q.field, q.op, ids)
        keys == IF scan THEN PrimaryIds(scanKeys) ELSE ids
        done == (scan /\ scanKeys = {}) \/ (~scan /\ ids = {})
    IN /\ find.pc = "none" /\ Len(calls) = run.calls
       /\ find' = [pc |-> IF done THEN "done" ELSE "mget",
                   field |-> q.field, op |-> q.op, value |-> q.value,
                   path |-> IF scan THEN "scan" ELSE "index",
                   keys |-> keys, result |-> {}, quiet |-> Quiescent,
                   hooks |-> IF done THEN <<"before", "after">> ELSE <<"before">>]
       /\ UNCHANGED <<kv, sets, zsets, watching, dirty, calls, now, issued, version, run>>

\* rawEntities = await kv.mget(...keys), nulls dropped, the others parsed;
\* on the fallback path the entities are then filtered by the predicate; the
\* after hooks run on both paths
FindResolve ==
  /\ find.pc = "mget"
  /\ find' = [find EXCEPT !.pc = "done",
                          !.hooks = Append(@, "after"),
                          !.result = IF find.path = "scan"
                                     THEN Filtered(mget(find.keys), find.field, find.op, find.value)
                                     ELSE mget(find.keys)]
  /\ UNCHANGED <<kv, sets, zsets, watching, dirty, calls, now, issued, version, run>>

\* ------------------------------------------------------------------- clock
Tick ==
  /\ now < MaxTime
  /\ now' = now + 1
  /\ UNCHANGED <<kv, sets, zsets, watching, dirty, calls, issued, version, find, run>>

\* ----------------------------------------------------------- specification
\* an empty store, no call issued yet; n write calls will be issued, with
\* inputs from creates, patches and bulks
InitWith(n, creates, patches, bulks) ==
  /\ kv = <<>>
  /\ sets = {}
  /\ zsets = {}
  /\ watching = [c \in Clients |-> {}]
  /\ dirty = [c \in Clients |-> FALSE]
  /\ calls = <<>>
  /\ now = 1
  /\ issued = {}
  /\ version = [k \in IdSeqs |-> 0]
  /\ find = NoFind
  /\ run = [calls |-> n, creates |-> creates, patches |-> patches, bulks |-> bulks]

Init == InitWith(MaxCalls, CreateInputs, Patches, {})

Next ==
  \/ Create
  \/ UpdWatch
  \/ UpdRead
  \/ UpdUnwatch
  \/ UpdExec
  \/ DelRead
  \/ DelExec
  \/ Tick

Spec == Init /\ [][Next]_vars

\* The whole interface: the calls on single records, the calls on lists and
\* key patterns, and one findWhere issued after the write calls, all within
\* one millisecond.
InitOps ==
  InitWith(MaxOpsCalls, CreateInputs \cup InvalidCreateInputs,
           Patches \cup InvalidPatches, BulkInputs)

NextOps ==
  \/ Create
  \/ CreateBulk
  \/ UpdWatch
  \/ UpdRead
  \/ UpdUnwatch
  \/ UpdExec
  \/ DelRead
  \/ DelExec
  \/ DelAllScan
  \/ DelAllRead
  \/ DelAllExec
  \/ FindLookup
  \/ FindResolve

SpecOps == InitOps /\ [][NextOps]_vars

\* Index maintenance: the write calls and rebuildIndexes, within one
\* millisecond.
InitMaint == InitWith(MaxMaintCalls, CreateInputs, MaintPatches, MaintBulks)

NextMaint ==
  \/ Create
  \/ CreateBulk
  \/ UpdWatch
  \/ UpdRead
  \/ UpdUnwatch
  \/ UpdExec
  \/ DelRead
  \/ DelExec
  \/ DelAllScan
  \/ DelAllRead
  \/ DelAllExec
  \/ RebStart
  \/ RebKeys
  \/ RebGet
  \/ RebExec

SpecMaint == InitMaint /\ [][NextMaint]_vars

\* rebuildIndexes beside a reader: creates, rebuildIndexes and one findWhere,
\* which may run between the steps of a rebuild.
InitRebuild == InitWith(MaxRebuildCalls, RebuildCreates, {}, {})

NextRebuild ==
  \/ Create
  \/ RebStart
  \/ RebKeys
  \/ RebGet
  \/ RebExec
  \/ FindLookup
  \/ FindResolve

SpecRebuild == InitRebuild /\ [][NextRebuild]_vars

\* ------------------------------------------------------------------ claims

\* C1: two update / updateOrFail calls on the same id that both read the same
\* version of the record (both reads precede either commit) never both
\* commit; the one that does not commit reports null or the conflict error.
C1_AtMostOneCommit ==
  \A i, j \in CallIdx :
    (/\ i # j /\ IsUpd(i) /\ IsUpd(j) /\ Done(i) /\ Done(j)
     /\ calls[i].id = calls[j].id
     /\ calls[i].execs = 1 /\ calls[j].execs = 1
     /\ calls[i].result.kind # "Error" /\ calls[j].result.kind # "Error"
     /\ calls[i].verR = calls[j].verR)
    => /\ ~(calls[i].committed /\ calls[j].committed)
       /\ (calls[i].committed => calls[j].result.kind \in {"null", "ConflictError"})

\* C2: with no write call in flight, every stored record is in exactly the
\* index entries of its current values: for a set field in the equality set
\* of its value and no other, for a zset field by exactly the one member that
\* encodes its value.
C2_IndexConsistency ==
  Quiescent =>
    \A k \in DOMAIN kv : \A f \in DataFieldSet :
      FieldConsistent(f, maybeGetOf(kv, Str(k))[1])

\* the index and membership entries of entity e are all present in (ss, zs)
EntriesIn(e, ss, zs) ==
  /\ <<allKey, e["id"][2]>> \in ss
  /\ \A f \in DataFieldSet :
       IF indexedFields[f] = "set"
       THEN e[f] # Undef => <<setIndexKey(f, e[f]), e["id"][2]>> \in ss
       ELSE \A ze \in ZEntries(e[f], e["id"]) : <<f, ze[1], ze[2]>> \in zs

\* none of the index and membership entries of entity e is in (ss, zs)
EntriesOut(e, ss, zs) ==
  /\ <<allKey, e["id"][2]>> \notin ss
  /\ \A f \in DataFieldSet :
       IF indexedFields[f] = "set"
       THEN e[f] # Undef => <<setIndexKey(f, e[f]), e["id"][2]>> \notin ss
       ELSE \A ze \in ZEntries(e[f], e["id"]) : <<f, ze[1], ze[2]>> \notin zs

\* C3: every store transition is a whole batch or nothing.  A step that
\* writes a primary record leaves it with its membership and index entries;
\* a step that removes one also removes the membership entry and the index
\* entries of the record the deleting call read; and a step that changes an
\* index or the membership set is the committed batch of one call, whose
\* primary-record command took effect in the same step.
C3_BatchAtomic ==
  [][ /\ \A k \in IdSeqs :
           /\ (version'[k] # version[k] /\ k \in DOMAIN kv')
                => EntriesIn(maybeGetOf(kv', Str(k))[1], sets', zsets')
           /\ (k \in DOMAIN kv /\ k \notin DOMAIN kv')
                => \E i \in CallIdx :
                     /\ calls[i].op = "delete" /\ calls[i].pc = "exec"
                     /\ calls'[i].pc = "done" /\ calls[i].id[2] = k
                     /\ EntriesOut(calls[i].existing[1], sets', zsets')
      /\ (sets' # sets \/ zsets' # zsets)
           => \E i \in 1..Len(calls') :
                /\ (i > Len(calls) \/ calls[i].pc # "done")
                /\ calls'[i].pc = "done" /\ calls'[i].committed
                /\ IF calls'[i].op = "delete"
                   THEN calls'[i].id[2] \notin DOMAIN kv'
                   ELSE LET r == calls'[i].result.value[1]
                        IN /\ r["id"][2] \in DOMAIN kv'
                           /\ kv'[r["id"][2]] = Stringify(r)
                           /\ version'[r["id"][2]] # version[r["id"][2]]
    ]_vars

\* C3 witness: a call read the record while an earlier-started update or
\* delete of the same id was between its steps, and that call then committed.
C3_Witness ==
  \E i, j \in CallIdx :
    /\ i < j /\ calls[i].op \in {"update", "updateOrFail", "delete"}
    /\ calls[i].committed
    /\ calls[j].reads = 1 /\ calls[j].existing # <<>>
    /\ calls[j].id = calls[i].id /\ calls[j].verR = calls[i].verR

\* C4: when the primary key was modified after an update / updateOrFail call
\* read it (so after the call started watching it) and before its batch
\* executes, the batch is aborted: null for update, the conflict error for
\* updateOrFail, and no store change.
C4_AbortOnModify ==
  [][ \A i \in CallIdx :
        (/\ IsUpd(i) /\ calls[i].pc = "exec" /\ calls'[i].pc = "done"
         /\ calls'[i].execs = 1
         /\ version[calls[i].id[2]] # calls[i].verR)
        => /\ ~calls'[i].committed
           /\ calls'[i].result.kind =
                (IF calls[i].op = "update" THEN "null" ELSE "ConflictError")
           /\ kv' = kv /\ sets' = sets /\ zsets' = zsets
    ]_vars

\* C5: one update / updateOrFail call reads the primary record at most once
\* and submits at most one batch, whatever the outcome.
C5_NoRetry ==
  \A i \in CallIdx : IsUpd(i) => calls[i].reads <= 1 /\ calls[i].execs <= 1

\* C5 witness: an update whose batch was aborted has completed.
C5_Witness ==
  \E i \in CallIdx :
    IsUpd(i) /\ Done(i) /\ calls[i].execs = 1 /\ ~calls[i].committed
      /\ calls[i].result.kind \in {"null", "ConflictError"}

\* C6: when the read finds no primary record, update returns null and
\* updateOrFail fails with NotFoundError; the call submits no batch and none
\* of its steps changes a primary, index or membership key.
C6_NotFound ==
  [][ \A i \in CallIdx :
        (/\ IsUpd(i) /\ calls'[i] # calls[i]
         /\ calls'[i].reads = 1 /\ calls'[i].existing = <<>>)
        => /\ kv' = kv /\ sets' = sets /\ zsets' = zsets
           /\ calls'[i].execs = 0 /\ ~calls'[i].committed
           /\ (calls'[i].op = "updateOrFail"
                 => calls'[i].pc = "done" /\ calls'[i].result.kind = "NotFoundError")
           /\ (calls'[i].op = "update"
                 => \/ calls'[i].pc = "unwatch"
                    \/ calls'[i].pc = "done" /\ calls'[i].result.kind = "null")
    ]_vars

\* C6 witness: an update has returned null and an updateOrFail has failed with
\* NotFoundError, each after reading no record.
C6_Witness ==
  \E i, j \in CallIdx :
    /\ calls[i].op = "update" /\ Done(i) /\ calls[i].reads = 1
    /\ calls[i].existing = <<>> /\ calls[i].result.kind = "null"
    /\ calls[j].op = "updateOrFail" /\ calls[j].reads = 1
    /\ calls[j].existing = <<>> /\ calls[j].result.kind = "NotFoundError"

\* C7: while the primary key of the entity a create returned has not been
\* written since that create completed, maybeGet of its id returns a record
\* equal to the returned entity.
C7_RoundTrip ==
  \A i \in CallIdx :
    (/\ calls[i].op = "create" /\ calls[i].result.kind = "entity"
     /\ version[Returned(i)["id"][2]] = calls[i].verR)
    => maybeGet(Returned(i)["id"]) = calls[i].result.value

\* C8: a committed update / updateOrFail returns a record whose id is the id
\* argument and whose createdAt is the createdAt of the record it read,
\* whatever the patch names.
C8_IdentityPreserved ==
  \A i \in CallIdx :
    (IsUpd(i) /\ calls[i].committed)
    => /\ Returned(i)["id"] = calls[i].id
       /\ Returned(i)["createdAt"] = calls[i].existing[1]["createdAt"]

\* C9: every stored record has updatedAt >= createdAt.
C9_UpdatedNotBeforeCreated ==
  \A k \in DOMAIN kv :
    LET e == maybeGetOf(kv, Str(k))[1]
    IN Ms(e["updatedAt"]) >= Ms(e["createdAt"])

\* C10 as stated: a committed update stores an updatedAt strictly greater
\* than the updatedAt of the record it replaced.
C10_StrictlyIncreases ==
  \A i \in CallIdx :
    (IsUpd(i) /\ calls[i].committed)
    => Ms(Returned(i)["updatedAt"]) > Ms(calls[i].existing[1]["updatedAt"])

\* C10 amended: a committed update / updateOrFail stores, whatever the patch,
\* an updatedAt equal to the clock reading of the call, which is never
\* earlier than the updatedAt of the record the call read.
C10_Refreshed ==
  [][ \A i \in CallIdx :
        (IsUpd(i) /\ calls[i].pc = "exec" /\ calls'[i].committed)
        => LET r == calls'[i].result.value[1]
           IN /\ r["updatedAt"] = DateV(now)
              /\ kv'[r["id"][2]]["updatedAt"] = Str(toISOString(DateV(now)))
              /\ now >= Ms(calls[i].existing[1]["updatedAt"])
    ]_vars

\* C10 witness: an update with an empty patch committed in the millisecond
\* in which the record it read was written.
C10_Witness ==
  \E i \in CallIdx :
    /\ IsUpd(i) /\ calls[i].committed /\ DOMAIN calls[i].arg = {}
    /\ Returned(i)["updatedAt"] = calls[i].existing[1]["updatedAt"]

\* no set (membership or equality index) and no sorted set holds a member
\* for the id text k
NoMemberFor(k, ss, zs) ==
  /\ \A q \in ss : q[2] # k
  /\ \A z \in zs : MemberId(z[3]) # k

\* C11: in the step in which delete(id) returns true, the membership set, the
\* equality sets and the sorted sets are left with no member for id.
C11_DeleteCompleteness ==
  [][ \A i \in CallIdx :
        (/\ calls[i].op = "delete" /\ calls[i].pc = "exec"
         /\ calls'[i].result.kind = "true")
        => NoMemberFor(calls[i].id[2], sets', zsets')
    ]_vars

\* the ids of a set of entities
IdsOf(entities) == {e["id"] : e \in entities}

\* C12: a findWhere on an indexed field, issued and completed with no write
\* call in flight, returns the ids of the records that a read of all primary
\* records filtered in memory by the same predicate yields, for each of the
\* operators eq, ne, lt, lte, gt, gte, like, in, nin.
C12_IndexScanEquivalence ==
  (find.pc = "done" /\ find.quiet /\ Indexed(find.field))
  => IdsOf(find.result) = IdsOf(fullScan(find.field, find.op, find.value))

\* C13: a findWhere on a field whose index does not serve the operator (a set
\* field with lt, lte, gt, gte; a zset field with eq, ne, in, nin), issued
\* and completed with no write call in flight, returns the stored entities
\* that satisfy the predicate, as a full scan does.
C13_FallbackScan ==
  (/\ find.pc = "done" /\ find.quiet
   /\ Indexed(find.field) /\ ~UsesIndex(find.field, find.op) /\ find.op # "like")
  => find.result = fullScan(find.field, find.op, find.value)

\* C14: when findWhere returns, every entity of its result satisfies the
\* predicate on the value the primary record holds at that moment.
C14_ResultSatisfiesPredicate ==
  [][ (find.pc # "done" /\ find'.pc = "done")
      => \A e \in find'.result :
           /\ e["id"][2] \in DOMAIN kv'
           /\ Pred(SchemaParse(kv'[e["id"][2]])[1][find'.field], find'.op, find'.value)
    ]_vars

\* C15: the bulk read of the ids an index lookup yielded completes the call:
\* the result holds exactly the records of the ids that have a primary
\* record, each as stored, and the ids that have none are left out.
C15_SkipsMissing ==
  [][ (find.pc = "mget" /\ find.path = "index" /\ find' # find)
      => /\ find'.pc = "done"
         /\ {e["id"][2] : e \in find'.result} = find.keys \cap DOMAIN kv'
         /\ \A e \in find'.result : e = SchemaParse(kv'[e["id"][2]])[1]
    ]_vars

\* C15 witness: an index lookup yielded more ids than the call returned
\* entities, and the call returned some.
C15_Witness ==
  /\ find.pc = "done" /\ find.path = "index"
  /\ find.result # {}
  /\ Cardinality(find.result) < Cardinality(find.keys)

\* C16: the number deleteAll returns is the number of primary records its
\* batch removed.
C16_CountsPrimaryRecords ==
  [][ \A i \in CallIdx :
        (calls[i].op = "deleteAll" /\ calls[i].pc = "exec")
        => calls'[i].result.value[1]
             = Cardinality(DOMAIN kv) - Cardinality(DOMAIN kv')
    ]_vars

\* C17: the read step of delete(id) changes nothing in the store and, when
\* there is no primary record, ends the call with false and no batch.  The
\* batch step ends the call with true exactly when the primary record of id
\* was removed in that step; a batch that ran has removed, in that one step,
\* the primary record and the membership and index entries of the record the
\* call read, and has changed no other primary record; a batch that did not
\* run has changed nothing.
C17_Delete ==
  [][ \A i \in 1..Len(calls') :
        (calls'[i].op = "delete" /\ (i > Len(calls) \/ calls'[i] # calls[i]))
        => LET k == calls'[i].id[2]
           IN IF i > Len(calls)
              THEN /\ kv' = kv /\ sets' = sets /\ zsets' = zsets
                   /\ calls'[i].execs = 0
                   /\ IF k \in DOMAIN kv
                      THEN calls'[i].pc = "exec" /\ calls'[i].existing = maybeGet(Str(k))
                      ELSE calls'[i].pc = "done" /\ calls'[i].result.kind = "false"
              ELSE LET removed == k \in DOMAIN kv /\ k \notin DOMAIN kv'
                   IN /\ calls'[i].pc = "done"
                      /\ calls'[i].result.kind = (IF removed THEN "true" ELSE "false")
                      /\ calls'[i].committed
                           => /\ k \notin DOMAIN kv'
                              /\ EntriesOut(calls[i].existing[1], sets', zsets')
                      /\ ~calls'[i].committed
                           => kv' = kv /\ sets' = sets /\ zsets' = zsets
                      /\ \A j \in DOMAIN kv \ {k} : j \in DOMAIN kv' /\ kv'[j] = kv[j]
    ]_vars

\* C17 witness: one delete has returned true, and another has returned false
\* after its batch ran and found no primary record to remove.
C17_Witness ==
  \E i, j \in CallIdx :
    /\ calls[i].op = "delete" /\ calls[i].result.kind = "true"
    /\ calls[j].op = "delete" /\ calls[j].result.kind = "false"
    /\ calls[j].execs = 1 /\ calls[j].committed

\* the fields with an equality index
SetFields == {f \in DataFieldSet : indexedFields[f] = "set"}

\* C18: in the step in which an update / updateOrFail commits a record whose
\* value of a set-indexed field differs from the value of the record it read,
\* findWhere(field, 'eq', old value) stops returning the updated entity and
\* findWhere(field, 'eq', new value) returns it, also when the update follows
\* other updates of that field.
C18_EqFollowsUpdate ==
  [][ \A i \in CallIdx :
        (IsUpd(i) /\ calls[i].pc = "exec" /\ calls'[i].committed)
        => LET r == calls'[i].result.value[1]
               e == calls[i].existing[1]
           IN \A f \in SetFields : \A a, b \in {A, B} :
                (e[f] = a /\ r[f] = b /\ a # b)
                => /\ \A x \in (findWhere(f, "eq", a))' : x["id"] # r["id"]
                   /\ \E x \in (findWhere(f, "eq", b))' : x = r
    ]_vars

\* C18 witness: two updates of the same id have committed one after the
\* other, each changing the value of the set-indexed field email.
C18_Witness ==
  \E i, j \in CallIdx :
    /\ i # j /\ IsUpd(i) /\ IsUpd(j)
    /\ calls[i].committed /\ calls[j].committed
    /\ calls[i].id = calls[j].id
    /\ Returned(i)["email"] # calls[i].existing[1]["email"]
    /\ calls[j].existing[1]["email"] = Returned(i)["email"]
    /\ Returned(j)["email"] # calls[j].existing[1]["email"]

\* C19: with no write call in flight, findWhere on the numeric zset field age
\* with lt, lte, gt or gte returns exactly the stored entities whose age is
\* <, <=, >, >= the operand.
C19_RangeOnScore ==
  Quiescent =>
    \A op \in ZsetOps : \A v \in {Num(1), Num(2)} :
      findWhere("age", op, v) = fullScan("age", op, v)

\* the inputs that fail in normalization or schema validation
InvalidInputs == InvalidCreateInputs \cup InvalidPatches

\* the call was given an input that fails: create a malformed id, update /
\* updateOrFail a patch with an invalid field, createBulk a list with such an
\* item
GivenInvalid(call) ==
  CASE call.op = "create" -> call.arg \in InvalidInputs
    [] call.op \in {"update", "updateOrFail"} -> call.arg \in InvalidInputs
    [] call.op = "createBulk" -> \E k \in 1..Len(call.arg) : call.arg[k] \in InvalidInputs
    [] OTHER -> FALSE

\* C20: a create, createBulk, update or updateOrFail call that was given an
\* invalid input never submits a batch; the step in which it fails changes no
\* primary, index or membership key, for createBulk whatever valid items the
\* list holds besides the invalid one.
C20_InvalidWritesNothing ==
  [][ \A i \in 1..Len(calls') :
        /\ GivenInvalid(calls'[i])
             => /\ calls'[i].execs = 0 /\ ~calls'[i].committed
                /\ (i > Len(calls) \/ calls'[i] # calls[i])
                     => kv' = kv /\ sets' = sets /\ zsets' = zsets
        /\ (calls'[i].result.kind = "Error"
              /\ (i > Len(calls) \/ calls[i].result.kind # "Error"))
             => /\ kv' = kv /\ sets' = sets /\ zsets' = zsets
                /\ calls'[i].execs = 0
    ]_vars

\* C20 witness: a createBulk whose list holds a valid item before the invalid
\* one has failed, and so has a create with a malformed id.
C20_Witness ==
  \E i, j \in CallIdx :
    /\ calls[i].op = "createBulk" /\ calls[i].result.kind = "Error"
    /\ calls[i].arg[1] \notin InvalidInputs
    /\ calls[j].op = "create" /\ calls[j].result.kind = "Error"

\* C21: createBulk applies the writes of all its items as one batch.  The
\* step of a createBulk call either leaves the primary record, the membership
\* entry and the index entries of every item of the list in the store, or
\* (batch not executed) leaves the store as it was; the store has no state in
\* between, so no reader sees some items of the list and not the others.
C21_BulkAtomic ==
  [][ (Len(calls') = Len(calls) + 1 /\ calls'[Len(calls')].op = "createBulk"
         /\ calls'[Len(calls')].result.kind = "entities")
      => LET call == calls'[Len(calls')]
             entities == call.result.value
         IN IF call.committed
            THEN \A i \in 1..Len(entities) :
                   /\ entities[i]["id"][2] \in DOMAIN kv'
                   /\ kv'[entities[i]["id"][2]] = Stringify(entities[i])
                   /\ EntriesIn(entities[i], sets', zsets')
            ELSE kv' = kv /\ sets' = sets /\ zsets' = zsets
    ]_vars

\* C21 witness: a createBulk of two items committed while an update of one of
\* their ids was between its watch and its read; the update then read the
\* item the list created.
C21_Witness ==
  \E i, j \in CallIdx :
    /\ j < i /\ IsUpd(j) /\ calls[j].existing # <<>>
    /\ calls[i].op = "createBulk" /\ calls[i].committed
    /\ Len(calls[i].result.value) = 2
    /\ \E n \in 1..2 : calls[j].existing[1] = calls[i].result.value[n]

\* the operations that submit a batch
WriteOps == {"create", "createBulk", "update", "updateOrFail", "delete", "deleteAll"}

\* the call completed without an error
Completed(i) ==
  Done(i) /\ calls[i].result.kind \notin {"Error", "NotFoundError", "ConflictError"}

\* C22: the before hooks run first, before any batch of the call, and a call
\* that completes without error has run its after hooks exactly once, after
\* its batch (when it submitted one) was executed.
C22_Hooks ==
  /\ \A i \in CallIdx :
       calls[i].op \in WriteOps =>
         /\ calls[i].hooks # <<>> /\ calls[i].hooks[1] = "before"
         /\ Completed(i) =>
              /\ calls[i].hooks = <<"before", "after">>
              /\ calls[i].execs > 0 => calls[i].committed
  /\ find.pc = "done" => find.hooks = <<"before", "after">>

\* C23: with no write call in flight, the membership set holds exactly the
\* ids that have a stored primary record.
C23_Membership ==
  Quiescent => SMembers(allKey) = DOMAIN kv

\* the ids of the membership set that have a primary record
LiveMembers == SMembers(allKey) \cap DOMAIN kv

\* the equality sets and the sorted sets hold the entries of the current
\* values of the records of ids, and nothing else
IndexesExact(ids) ==
  /\ {q \in sets : q[1] # allKey}
       = {<<setIndexKey(x[2], kv[x[1]][x[2]]), x[1]>> :
            x \in {y \in ids \X DataFieldSet :
                     indexedFields[y[2]] = "set" /\ Get(kv[y[1]], y[2]) # Undef}}
  /\ zsets
       = UNION {{<<x[2], ze[1], ze[2]>> :
                   ze \in ZEntries(SchemaParse(kv[x[1]])[1][x[2]], Str(x[1]))} :
                x \in {y \in ids \X DataFieldSet : indexedFields[y[2]] = "zset"}}

\* C24: a rebuildIndexes call that ran with no writer beside it (no call in
\* flight when it started, none started since) leaves every id of the
\* membership set that has a primary record in exactly the index entries of
\* its current values, and no other member in the indexes.
C24_RebuildRepairs ==
  \A i \in CallIdx :
    (/\ i = Len(calls) /\ calls[i].op = "rebuildIndexes" /\ Done(i)
     /\ calls[i].arg.quiet)
    => IndexesExact(LiveMembers)

\* C25: what a writer that runs beside rebuildIndexes leaves inconsistent
\* does not last.  When the batch of a rebuild completes as the last of the
\* calls in flight, on a store whose indexes were exact for the stored
\* records just before it, the indexes are exact for the stored records
\* afterwards.
C25_TransientOnly ==
  [][ \A i \in CallIdx :
        (/\ calls[i].op = "rebuildIndexes" /\ calls[i].pc = "exec"
         /\ calls'[i].pc = "done" /\ Quiescent'
         /\ IndexesExact(DOMAIN kv))
        => IndexesExact(DOMAIN kv)'
    ]_vars

\* the fields indexed by a sorted set
ZsetFields == {f \in DataFieldSet : indexedFields[f] = "zset"}

\* C26: an update that changes the string value of a zset field from v1 to
\* v2 removes the old member: once its batch is executed the sorted set no
\* longer contains the member that encodes (v1, id).
C26_OldMemberRemoved ==
  [][ \A i \in CallIdx :
        (/\ IsUpd(i) /\ calls[i].pc = "exec"
         /\ calls'[i].pc = "done" /\ calls'[i].committed)
        => LET e == calls[i].existing[1]
               r == calls'[i].result.value[1]
           IN \A f \in ZsetFields :
                (/\ r["id"] = e["id"] /\ IsStr(e[f]) /\ IsStr(r[f])
                 /\ r[f] # e[f])
                => <<f, 0, LexMember(e[f], e["id"])>> \notin zsets'
    ]_vars

\* C27: an absent value has no index entry.  An update that takes an indexed
\* field from a value to absent removes the entry of the old value: once its
\* batch is executed the id is not in the equality set of the old value, and
\* the sorted set has no entry that encodes the old value of the id.
C27_AbsentHasNoEntry ==
  [][ \A i \in CallIdx :
        (/\ IsUpd(i) /\ calls[i].pc = "exec"
         /\ calls'[i].pc = "done" /\ calls'[i].committed)
        => LET e == calls[i].existing[1]
               r == calls'[i].result.value[1]
           IN \A f \in DataFieldSet :
                (r["id"] = e["id"] /\ e[f] # Undef /\ r[f] = Undef)
                => IF indexedFields[f] = "set"
                   THEN <<setIndexKey(f, e[f]), e["id"][2]>> \notin sets'
                   ELSE \A ze \in ZEntries(e[f], e["id"]) :
                          <<f, ze[1], ze[2]>> \notin zsets'
    ]_vars

\* C28: a lexicographic range query on a string zset field treats the bound
\* as string comparison does: on a store at rest, a record whose value equals
\* the operand is returned by lte and gte and is not returned by lt and gt.
C28_BoundaryInclusive ==
  (/\ find.pc = "done" /\ find.quiet
   /\ find.field \in ZsetFields /\ find.op \in ZsetOps /\ IsStr(find.value))
  => \A k \in DOMAIN kv :
       LET e == SchemaParse(kv[k])[1]
       IN e[find.field] = find.value
            => (e \in find.result <=> find.op \in {"lte", "gte"})

\* the entities a completed create, createBulk or update returned
ReturnedEntities(i) ==
  CASE calls[i].result.kind = "entity" -> {calls[i].result.value[1]}
    [] calls[i].result.kind = "entities" ->
         {calls[i].result.value[n] : n \in 1..Len(calls[i].result.value)}
    [] OTHER -> {}

\* C29: the member stored for a string value decodes to the id it was built
\* from: for every entity a committed call wrote and every zset field with a
\* string value v, x.split("||")[1] of the member of (v, id) is id.
C29_MemberDecodesToId ==
  \A i \in CallIdx :
    calls[i].committed =>
      \A r \in ReturnedEntities(i) : \A f \in ZsetFields :
        IsStr(r[f]) => SplitSecond(LexMember(r[f], r["id"])) = r["id"][2]

\* C30: on a set-indexed field and a store at rest, findWhere with ne v
\* returns exactly the stored entities whose current value differs from v,
\* and with nin vs exactly those whose current value is none of vs.
C30_NeNinComplement ==
  (/\ find.pc = "done" /\ find.quiet
   /\ find.field \in SetFields /\ find.op \in {"ne", "nin"})
  => find.result = {e \in mget(DOMAIN kv) : Pred(e[find.field], find.op, find.value)}

\* C31: an update or updateOrFail call writes in its executed batch only.
\* Every other step of the call (the watch, the read, the unwatch, a
\* normalization that fails, a batch that is not executed) leaves the primary
\* records, the indexes and the membership set as they were, so a call
\* abandoned between its read and its batch has changed nothing.
C31_AbandonedWritesNothing ==
  [][ \A i \in 1..Len(calls') :
        (/\ calls'[i].op \in {"update", "updateOrFail"}
         /\ (i > Len(calls) \/ calls'[i] # calls[i])
         /\ ~calls'[i].committed)
        => kv' = kv /\ sets' = sets /\ zsets' = zsets
    ]_vars

\* C31 witness: an update read a stored record and then failed in
\* normalization, with no batch submitted.
C31_Witness ==
  \E i \in CallIdx :
    /\ IsUpd(i) /\ Done(i) /\ calls[i].result.kind = "Error"
    /\ calls[i].reads = 1 /\ calls[i].existing # <<>> /\ calls[i].execs = 0
    /\ calls[i].id[2] \in DOMAIN kv

\* call j has executed a batch or has called unwatch
ClearedWatches(j) ==
  calls[j].execs > 0 \/ (calls[j].op = "update" /\ Done(j) /\ calls[j].execs = 0
                           /\ calls[j].result.kind = "null")

\* C32: calls issued through the same client do not weaken the optimistic
\* check.  When the key was modified between the read of an update /
\* updateOrFail call and its EXEC, the batch is not executed, also when
\* another call on the same client has executed a batch or called unwatch.
C32_SameClientKeepsCheck ==
  [][ \A i \in CallIdx :
        (/\ IsUpd(i) /\ calls[i].pc = "exec" /\ calls'[i].pc = "done"
         /\ calls'[i].execs = 1
         /\ version[calls[i].id[2]] # calls[i].verR
         /\ \E j \in CallIdx :
              j # i /\ calls[j].client = calls[i].client /\ ClearedWatches(j))
        => ~calls'[i].committed
    ]_vars

\* C33: every path out of update and updateOrFail leaves the connection with
\* no watched key: when no update / updateOrFail call is in flight, no
\* connection watches a key.
C33_NoWatchLeft ==
  (\A i \in CallIdx : IsUpd(i) => Done(i))
  => \A c \in Clients : watching[c] = {}

\* C34: create, createBulk and deleteAll report success only for a batch that
\* was executed: a create or createBulk call whose EXEC was aborted does not
\* return the entities as created and does not run the after hooks, and a
\* deleteAll whose EXEC was aborted reports no deleted key.
C34_SuccessMeansExecuted ==
  \A i \in CallIdx :
    (/\ calls[i].op \in {"create", "createBulk", "deleteAll"}
     /\ Done(i) /\ calls[i].execs = 1 /\ ~calls[i].committed)
    => /\ calls[i].result.kind \notin {"entity", "entities"}
       /\ calls[i].hooks = <<"before">>
       /\ calls[i].result.kind = "count" => calls[i].result.value = <<0>>

\* C35: an update that read a record which was deleted before the update's
\* batch executes does not bring the record back: the batch of an update /
\* updateOrFail call that read a record, run when the id has no primary
\* record any more, writes no primary record and changes no index or
\* membership entry.
C35_UpdateAfterDelete ==
  [][ \A i \in CallIdx :
        (/\ IsUpd(i) /\ calls[i].pc = "exec" /\ calls'[i].pc = "done"
         /\ calls[i].existing # <<>>
         /\ calls[i].id[2] \notin DOMAIN kv)
        => kv' = kv /\ sets' = sets /\ zsets' = zsets
    ]_vars

\* C36: a delete removes the entries of the record as it is when the batch
\* executes.  When an update that changed an indexed field committed between
\* the read of a delete and its batch, the executed batch of the delete
\* leaves no equality set and no sorted set with the deleted id.
C36_DeleteAfterUpdate ==
  [][ \A i \in CallIdx :
        (/\ calls[i].op = "delete" /\ calls[i].pc = "exec"
         /\ calls'[i].pc = "done" /\ calls'[i].committed
         /\ calls[i].id[2] \in DOMAIN kv
         /\ EntriesIn(maybeGet(calls[i].id)[1], sets, zsets)
         /\ \E f \in DataFieldSet :
              maybeGet(calls[i].id)[1][f] # calls[i].existing[1][f]
         /\ \E j \in CallIdx :
              /\ IsUpd(j) /\ calls[j].committed /\ calls[j].id = calls[i].id
              /\ Returned(j) = maybeGet(calls[i].id)[1])
        => \A f \in DataFieldSet :
             LET cur == maybeGet(calls[i].id)[1]
             IN IF indexedFields[f] = "set"
                THEN cur[f] # Undef
                       => <<setIndexKey(f, cur[f]), calls[i].id[2]>> \notin sets'
                ELSE \A ze \in ZEntries(cur[f], calls[i].id) :
                       <<f, ze[1], ze[2]>> \notin zsets'
    ]_vars

\* C37: a create with a caller-supplied id that already has a stored record
\* with another value in a set-indexed field leaves the index consistent:
\* after the executed batch the id is in the equality set of the new value
\* and not in the one of the old value, and findWhere(field, 'eq', old value)
\* does not return the entity.
C37_CreateOverExisting ==
  [][ \A f \in SetFields : \A a, b \in {A, B} :
        (/\ Len(calls') = Len(calls) + 1
         /\ calls'[Len(calls')].op = "create" /\ calls'[Len(calls')].committed
         /\ "id" \in DOMAIN calls'[Len(calls')].arg
         /\ calls'[Len(calls')].arg["id"][2] \in DOMAIN kv
         /\ maybeGet(calls'[Len(calls')].arg["id"])[1][f] = a
         /\ calls'[Len(calls')].arg[f] = b /\ a # b)
        => LET id == calls'[Len(calls')].arg["id"]
           IN /\ <<setIndexKey(f, b), id[2]>> \in sets'
              /\ <<setIndexKey(f, a), id[2]>> \notin sets'
              /\ \A x \in (findWhere(f, "eq", a))' : x["id"] # id
    ]_vars

\* no writer runs beside a rebuild: every call issued after a rebuildIndexes
\* call is a rebuildIndexes call
NoWriterBesideRebuild ==
  \A i, j \in CallIdx :
    (calls[i].op = "rebuildIndexes" /\ i < j) => calls[j].op = "rebuildIndexes"

\* C38: rebuildIndexes clears and repopulates the indexes in one batch.  The
\* steps of a rebuild before its batch change nothing in the store, and a
\* findWhere that runs beside a rebuild, with no other writer, returns what a
\* scan of the stored records returns: an equality query on a set field and
\* a numeric range query on a zset field never see an index that was cleared
\* and not yet repopulated.
C38_RebuildAtomic ==
  [][ /\ \A i \in CallIdx :
           (calls[i].op = "rebuildIndexes" /\ calls'[i] # calls[i]
              /\ calls[i].pc # "exec")
           => kv' = kv /\ sets' = sets /\ zsets' = zsets
      /\ (/\ find'.pc = "done" /\ find.pc # "done"
          /\ NoWriterBesideRebuild
          /\ \/ find'.field \in SetFields /\ find'.op \in {"eq", "in"}
             \/ find'.field = "age" /\ find'.op \in ZsetOps)
         => find'.result = fullScan(find'.field, find'.op, find'.value)
    ]_vars

\* C38 witness: a findWhere looked up the index while a rebuild that re-adds
\* a record was in flight, the rebuild executed its batch, and the findWhere
\* returned a record.
C38_Witness ==
  /\ find.pc = "done" /\ ~find.quiet /\ find.result # {}
  /\ find.path = "index" /\ NoWriterBesideRebuild
  /\ \E i \in CallIdx :
       /\ calls[i].op = "rebuildIndexes" /\ Done(i) /\ calls[i].committed
       /\ calls[i].existing # <<>>

\* C39: two delete calls of the same id that both read the record before
\* either batch ran: at most one returns true, and when the second of them
\* completes the primary record is gone and the membership set, the equality
\* sets and the sorted sets hold no member for the id.
C39_TwoDeletes ==
  [][ \A i, j \in CallIdx :
        (/\ i # j /\ calls[i].op = "delete" /\ calls[j].op = "delete"
         /\ calls[i].id = calls[j].id /\ calls[i].verR = calls[j].verR
         /\ calls[i].existing # <<>> /\ calls[j].existing # <<>>
         /\ Done(j) /\ calls[i].pc = "exec" /\ calls'[i].pc = "done")
        => /\ ~(calls'[i].result.kind = "true" /\ calls[j].result.kind = "true")
           /\ calls[i].id[2] \notin DOMAIN kv'
           /\ NoMemberFor(calls[i].id[2], sets', zsets')
    ]_vars

====
